---- MODULE Spec2Model ----
(***************************************************************************)
(* Job lifecycle of the Arke agent template.                               *)
(*                                                                         *)
(* The repository holds two entry points for the same job contract:        *)
(*   - the Durable Object  AgentJob  (src/src/agent-job.ts): handleStart   *)
(*     creates the record and arms an alarm, processAlarm runs the task,   *)
(*     writeLog flushes the log and propagates the status;                 *)
(*   - the Worker  app  (src/src/index.ts): POST /process stores the       *)
(*     record in KV and runs processJob in the background (waitUntil).     *)
(* A deployment runs one of them; Init chooses which.                      *)
(*                                                                         *)
(* BaseAgentDO (package @arke-institute/agent-core) is not part of the     *)
(* sources: its alarm dispatch, failJob, isExpired and storage helpers are *)
(* modelled from the specification text.                                   *)
(***************************************************************************)
EXTENDS Integers, Sequences, FiniteSets

\* ---------------------------------------------------------------- bounds

\* Job identifiers submitted in a run.
Jobs == {"J1", "J2"}

\* POST /process requests received in a run.
MaxRequests == 2

\* Process crashes (isolate evictions) in a run.
MaxCrashes == 1

\* How many times the clock of the KV namespace advances.
MaxTicks == 3

\* How many times the clock of the key cache advances.
MaxCacheTicks == 3

\* How many times sibling writers update the job collection during one
\* propagation.
MaxSiblingWrites == 2

\* ---------------------------------------------------------------- state

VARIABLES
  deployment,   \* "durable_object" (agent-job.ts) or "worker" (index.ts)
  apiKey,       \* env.ARKE_API_KEY is set
  store,        \* job store: job_id -> stored record (DO storage / KV)
  alarmState,   \* DO: sidecar AlarmState record, "none" or "process"
  alarmArmed,   \* DO: the platform owes the job an alarm execution
  expired,      \* now is past the job's expires_at
  hpc,          \* DO: position of the live handleStart call, per job
  apc,          \* DO: position of the live alarm execution, per job
  mem,          \* DO: the in-memory `state` object of the alarm execution
  procs,        \* Worker: background processJob calls, one per request
  nreq,         \* requests received so far
  crashes,      \* crashes so far
  event,        \* what the last step sent or ended: a POST /process response,
                \* or the end of an alarm execution or of a processJob call
  taskRuns,     \* history: invocations of runTask, per job
  exTask,       \* DO: runTask outcome in the live alarm execution
  exLog,        \* DO: writeJobLog calls in the live alarm execution
  exProp,       \* DO: updateJobCollectionStatus calls in the live alarm execution
  firstFire,    \* history: was the job expired when processing first began
  prop,         \* one call of updateJobCollectionStatus, step by step
  verif,        \* one call of verifyArkeSignature: its inputs and its result
  kv,           \* the KV namespace JOBS behind state.ts, with its clock
  keyCache      \* the verifier's signing-key cache, with its clock

vars == <<deployment, apiKey, store, alarmState, alarmArmed, expired, hpc, apc,
          mem, procs, nreq, crashes, event, taskRuns, exTask, exLog, exProp,
          firstFire, prop, verif, kv, keyCache>>

Requests == 1..MaxRequests

\* ---------------------------------------------------------------- records

Range(seq) == {seq[i] : i \in 1..Len(seq)}

\* An optional field (result?, error?, progress?) is a sequence of length 0 or 1.
Absent == <<>>

Some(x) == <<x>>

\* No record under this key (getState / kv.get return null).
NoRec ==
  [job_id |-> "none", status |-> "none", result |-> Absent, error |-> Absent,
   completed_at |-> FALSE, progress |-> Absent]

Exists(rec) == rec.status # "none"

Terminal(rec) == rec.status \in {"done", "error"}

Progress(p, d, dn, e) ==
  [total |-> 1, pending |-> p, dispatched |-> d, done |-> dn, error |-> e]

\* A record created already in status running.
InitialStateStarted(j) ==
  [job_id |-> j, status |-> "running", result |-> Absent, error |-> Absent,
   completed_at |-> FALSE, progress |-> Some(Progress(0, 1, 0, 0))]

\* agent-job.ts handleStart: the record created for a fresh job_id.
InitialState(j) ==
  [job_id |-> j, status |-> "pending", result |-> Absent, error |-> Absent,
   completed_at |-> FALSE, progress |-> Some(Progress(1, 0, 0, 0))]

\* index.ts POST /process: the record written for every accepted request.
InitialJobState(j) ==
  [job_id |-> j, status |-> "pending", result |-> Absent, error |-> Absent,
   completed_at |-> FALSE, progress |-> Absent]

\* What a failing callee throws: an Error carrying a message, or another value.
Thrown == {"Error", "other"}

\* err instanceof Error ? err.message : 'Unknown error'
ErrMessage(t) == IF t = "Error" THEN "task message" ELSE "Unknown error"

TaskFailed(t) == Some([code |-> "TASK_FAILED", message |-> ErrMessage(t)])

\* processAlarm: the pending -> running transition.
MarkRunning(st) ==
  [st EXCEPT !.status = "running", !.progress = Some(Progress(0, 1, 0, 0))]

\* The task returned, and no completion time is stamped on the record.
MarkDoneUnstamped(st) ==
  [st EXCEPT !.status = "done", !.result = Some("task result"),
             !.progress = Some([st.progress[1] EXCEPT !.dispatched = 0, !.done = 1])]

\* The task returned, and the counter of dispatched work is left as it was.
MarkDoneStillDispatched(st) ==
  [st EXCEPT !.status = "done", !.result = Some("task result"),
             !.completed_at = TRUE,
             !.progress = Some([st.progress[1] EXCEPT !.done = 1])]

\* processAlarm: the task returned.
MarkDone(st) ==
  [st EXCEPT !.status = "done", !.result = Some("task result"),
             !.completed_at = TRUE,
             !.progress = Some([st.progress[1] EXCEPT !.dispatched = 0, !.done = 1])]

\* The task threw t, and the record is given a result next to its error.
MarkTaskFailedKeepsResult(st, t) ==
  [st EXCEPT !.status = "error", !.error = TaskFailed(t),
             !.result = Some("task result"), !.completed_at = TRUE,
             !.progress = Some([st.progress[1] EXCEPT !.dispatched = 0, !.error = 1])]

\* processAlarm: the task threw t.
MarkTaskFailed(st, t) ==
  [st EXCEPT !.status = "error", !.error = TaskFailed(t),
             !.completed_at = TRUE,
             !.progress = Some([st.progress[1] EXCEPT !.dispatched = 0, !.error = 1])]

\* BaseAgentDO.failJob: the record it stores.
FailJob(st, code, message) ==
  [st EXCEPT !.status = "error",
             !.error = Some([code |-> code, message |-> message]),
             !.completed_at = TRUE,
             !.progress = Some(Progress(0, 0, 0, 1))]

\* BaseAgentDO.isExpired
IsExpired(j) == expired[j]

\* processJob (index.ts): the three status changes of the in-memory state.
JobRunning(st) == [st EXCEPT !.status = "running"]

JobDone(st) ==
  [st EXCEPT !.status = "done", !.result = Some("task result"), !.completed_at = TRUE]

JobError(st, t) ==
  [st EXCEPT !.status = "error", !.error = TaskFailed(t), !.completed_at = TRUE]

\* A propagation that reports done whatever the record says.
FinalStatusAlwaysDone(st) == "done"

\* const finalStatus = state.status === 'done' ? 'done' : 'error'
FinalStatus(st) == IF st.status = "done" THEN "done" ELSE "error"

\* Every record is written under one key, whatever its job_id.
JobKeyShared(state) == CHOOSE j \in Jobs : TRUE

\* saveJobState writes under the key made of the job_id of the state it is
\* given: `job:${state.job_id}` (state.ts 17).
JobKey(state) == state.job_id

\* getStatusResponse / GET /status/:job_id; only the Durable Object's
\* response has a progress field.
StatusResponse(j) ==
  IF Exists(store[j])
    THEN [code |-> 200, job_id |-> store[j].job_id, status |-> store[j].status,
          result |-> store[j].result, error |-> store[j].error,
          completed_at |-> store[j].completed_at,
          progress |-> IF deployment = "durable_object"
                         THEN store[j].progress ELSE Absent]
    ELSE [code |-> 404, job_id |-> j, status |-> "none", result |-> Absent,
          error |-> Absent, completed_at |-> FALSE, progress |-> Absent]

\* ---------------------------------------------------------------- events

\* The step sent nothing and ended nothing.
NoEvent ==
  [kind |-> "none", job |-> "none", code |-> 0, accepted |-> FALSE, fresh |-> FALSE,
   how |-> "none", task |-> "none", nlog |-> 0, nprop |-> 0, ret |-> FALSE,
   req |-> Absent, retry_after |-> 0, propagated |-> "none"]

\* { accepted: true, job_id }; fresh: no record existed when the request came.
Accepted(j, fresh) ==
  [NoEvent EXCEPT !.kind = "response", !.job = j, !.code = 200, !.accepted = TRUE,
                  !.fresh = fresh]

\* { accepted: false, error } with its status code.
Rejected(j, code, fresh) ==
  [NoEvent EXCEPT !.kind = "response", !.job = j, !.code = code, !.fresh = fresh]

\* An alarm execution (kind "alarm") or a processJob call (kind "processJob")
\* of job j ended: how it ended ("returned", "threw", "skipped", "crashed"),
\* what runTask did in it, and how often it called writeJobLog and
\* updateJobCollectionStatus; ret is the value processAlarm returned, and
\* propagated the status updateJobCollectionStatus was to write.
\* A response of the Worker carries the request it answers (req).
Ended(kind, j, how, task, nlog, nprop) ==
  [NoEvent EXCEPT !.kind = kind, !.job = j, !.how = how, !.task = task,
                  !.nlog = nlog, !.nprop = nprop]

\* A response of POST /process to the request q: retry_after is sent with the
\* 503 only (index.ts 85-90).
Response(e, q) ==
  [e EXCEPT !.req = Some(q), !.retry_after = IF e.code = 503 THEN 60 ELSE 0]

\* What the first firing of a job saw of its deadline.
FirstFire(old, j) ==
  IF old = "unfired" THEN (IF expired[j] THEN "expired" ELSE "live") ELSE old

IdleProc == [job |-> "none", pc |-> "unused", st |-> NoRec, task |-> "none", nlog |-> 0]

\* updateJobCollectionStatus is not being called. Of a call: the job, the
\* position (pc), the loop variable attempt, the responses of the GETs and of
\* the PUTs so far, the delays waited so far, the status written to the
\* collection, why it waits (cause), and how the call ended; the version of the collection (tip),
\* the version this call last read (cid, 0 for none) and the attempt it read
\* it in, and of every PUT the expect_tip it carried, the attempt that read
\* that version, the attempt that sent it and the tip it met (tags).
IdleProp ==
  [job |-> "none", pc |-> "idle", attempt |-> 0, gets |-> <<>>, puts |-> <<>>,
   waits |-> <<>>, written |-> "none", result |-> "none",
   tip |-> 1, cid |-> 0, readIn |-> 0, tags |-> <<>>, cause |-> "none"]

\* state.ts: const KV_TTL = 86400
KV_TTL == 86400

\* The key of a job: `job:${jobId}`.
Key(jobId) == <<"job:", jobId>>

Keys == {Key(j) : j \in Jobs}

\* The properties of a JobState object that the model follows, in the order
\* the object literal lists them. A property is absent from the object
\* ("absent"), present with the value undefined ("undefined"), or a string.
Fields == <<"job_id", "status", "expires_at", "started_at", "completed_at", "result", "error">>

NoState == [f \in Range(Fields) |-> "absent"]

\* index.ts 93-103: the object literal of an accepted request. expires_at is
\* jobRequest.expires_at, undefined when the body has no such member; the
\* literal has no completed_at, result or error.
PendingState(j, expires_at) ==
  [NoState EXCEPT !.job_id = j, !.status = "pending", !.expires_at = expires_at,
                  !.started_at = "t0"]

\* The objects processJob hands to saveJobState (index.ts 131-132, 146-159, 182).
JobStates(j) ==
  UNION {{PendingState(j, e),
          [PendingState(j, e) EXCEPT !.status = "running"],
          [PendingState(j, e) EXCEPT !.status = "done", !.result = "task result",
                                     !.completed_at = "t1"],
          [PendingState(j, e) EXCEPT !.status = "error", !.error = "TASK_FAILED",
                                     !.completed_at = "t1"]} :
         e \in {"undefined", "t9"}}

\* A JSON text is the sequence of its members, a member a pair <<name, value>>.
Members(state) == [i \in 1..Len(Fields) |-> <<Fields[i], state[Fields[i]]>>]

HasValue(member) == member[2] \notin {"absent", "undefined"}

\* A serialisation that writes a property whose value is undefined as null.
StringifyUndefinedAsNull(state) ==
  LET written == SelectSeq(Members(state), LAMBDA member : member[2] # "absent")
  IN [i \in 1..Len(written) |->
        IF written[i][2] = "undefined" THEN <<written[i][1], "null">> ELSE written[i]]

\* JSON.stringify(state): a property whose value is undefined is left out.
Stringify(state) == SelectSeq(Members(state), HasValue)

\* JSON.parse, as kv.get(key, 'json') applies it: the object has exactly the
\* members of the text.
Parse(text) ==
  [f \in Range(Fields) |->
     IF \E i \in 1..Len(text) : text[i][1] = f
       THEN text[CHOOSE i \in 1..Len(text) : text[i][1] = f][2]
       ELSE "absent"]

\* Reading the property f of an object: undefined when it is absent.
ReadField(state, f) == IF state[f] = "absent" THEN "undefined" ELSE state[f]

\* No put options at all: the value is written without a time-to-live.
PutOptionsNoTtl == [expirationTtl |-> Absent]

\* { expirationTtl: KV_TTL }
PutOptions == [expirationTtl |-> Some(KV_TTL)]

\* No value under a key. Of a value: its text, when it was written (at), the
\* expirationTtl it was written with, when it expires, and the object that
\* was serialised into it (saved).
NoEntry ==
  [present |-> FALSE, text |-> <<>>, at |-> 0, ttl |-> Absent, expires |-> Absent,
   saved |-> NoState]

\* kv.put(key, text, options) at time now: the value expires expirationTtl
\* seconds after the write, or never.
KvPut(text, options, now, state) ==
  [present |-> TRUE, text |-> text, at |-> now, ttl |-> options.expirationTtl,
   expires |-> IF options.expirationTtl = Absent
                 THEN Absent ELSE Some(now + options.expirationTtl[1]),
   saved |-> state]

\* A value is readable until it expires.
Readable(entry, now) ==
  entry.present /\ (entry.expires = Absent \/ now < entry.expires[1])

\* No operation of state.ts has been called. Of a call: which (op), for which
\* job_id, and for getJobState whether it returned an object and which.
NoOp == [op |-> "none", job |-> "none", found |-> FALSE, state |-> NoState]

\* The KV namespace is not looked at: its clock, its values, the last call.
IdleKv == [now |-> 0, data |-> [k \in Keys |-> NoEntry], last |-> NoOp]

\* verify.ts: the signing key is cached for 1 hour.
CACHE_TTL == 3600

\* The authority origins (api_base) requests claim.
Origins == {"https://a", "https://b"}

\* No key cached for an origin. Of a cached key: when it was fetched.
NoKey == [present |-> FALSE, fetchedAt |-> 0]

\* getArkePublicKey has not been called. Of a call: the origin, what the
\* cache held for it when the call came (cached, fetchedAt), how many times
\* the call fetched `{origin}/.well-known/signing-key`, and whether it
\* returned a key.
NoLookup ==
  [op |-> "none", origin |-> "none", cached |-> FALSE, fetchedAt |-> 0,
   fetches |-> 0, key |-> FALSE]

\* The key cache is not looked at: its clock, its entries, the last call.
IdleKeyCache == [now |-> 0, cache |-> [o \in Origins |-> NoKey], last |-> NoLookup]

\* A cache in which no entry is ever usable.
CacheFreshNever(entry, now) == FALSE

\* A cached key is used while it is less than CACHE_TTL old.
CacheFresh(entry, now) == entry.present /\ now - entry.fetchedAt < CACHE_TTL

\* verifyArkeSignature is not being called. Of a call: the clock (now), the
\* header's t, whether the header parses, the key is available and the
\* signature matches, and the VerifyResult.
IdleVerif ==
  [pc |-> "idle", now |-> 0, t |-> 0, header |-> FALSE, key |-> FALSE,
   signature |-> FALSE, valid |-> FALSE, error |-> "none"]

\* ---------------------------------------------------------------- Init

Init ==
  /\ \/ deployment = "durable_object" /\ apiKey = TRUE
     \/ deployment = "worker" /\ apiKey \in BOOLEAN
  /\ store = [j \in Jobs |-> NoRec]
  /\ alarmState = [j \in Jobs |-> "none"]
  /\ alarmArmed = [j \in Jobs |-> FALSE]
  /\ expired = [j \in Jobs |-> FALSE]
  /\ hpc = [j \in Jobs |-> "idle"]
  /\ apc = [j \in Jobs |-> "idle"]
  /\ mem = [j \in Jobs |-> NoRec]
  /\ procs = [r \in Requests |-> IdleProc]
  /\ nreq = 0
  /\ crashes = 0
  /\ event = NoEvent
  /\ taskRuns = [j \in Jobs |-> 0]
  /\ exTask = [j \in Jobs |-> "none"]
  /\ exLog = [j \in Jobs |-> 0]
  /\ exProp = [j \in Jobs |-> 0]
  /\ firstFire = [j \in Jobs |-> "unfired"]
  /\ prop = IdleProp
  /\ verif = IdleVerif
  /\ kv = IdleKv
  /\ keyCache = IdleKeyCache

\* ------------------------------------------- Durable Object: alarm dispatch
\* BaseAgentDO.alarm() is outside the sources; modelled from the specification:
\* the scheduling primitive fires at least once, re-fires after a crash, does
\* not run the runner for a terminal job, re-arms only when processAlarm
\* returns true, and gives no future wake-up when a fault escapes the handler.

\* The dispatcher does not enter processAlarm for this record.
AlarmSkipsNever(rec) == FALSE

AlarmSkips(rec) == Terminal(rec)

\* The alarm execution of job j ends; armed: whether the job is owed another.
AlarmEnds(j, armed) ==
  /\ apc' = [apc EXCEPT ![j] = "idle"]
  /\ mem' = [mem EXCEPT ![j] = NoRec]
  /\ exTask' = [exTask EXCEPT ![j] = "none"]
  /\ exLog' = [exLog EXCEPT ![j] = 0]
  /\ exProp' = [exProp EXCEPT ![j] = 0]
  /\ alarmArmed' = [alarmArmed EXCEPT ![j] = armed]

\* processAlarm returned ret: the alarm is re-armed exactly when ret is true.
AlarmReturns(j, ret, nlog, nprop) ==
  /\ AlarmEnds(j, ret)
  /\ event' = [Ended("alarm", j, "returned", exTask[j], nlog, nprop) EXCEPT !.ret = ret]

\* A fault escaped processAlarm: the execution ends, nothing wakes the job again.
AlarmThrows(j) ==
  /\ AlarmEnds(j, FALSE)
  /\ event' = Ended("alarm", j, "threw", exTask[j], exLog[j], exProp[j])

\* The platform delivers the alarm: getState, then processAlarm(state, alarmState).
AlarmFire(j) ==
  /\ deployment = "durable_object"
  /\ alarmArmed[j]
  /\ apc[j] = "idle"
  /\ IF AlarmSkips(store[j])
       THEN /\ alarmArmed' = [alarmArmed EXCEPT ![j] = FALSE]
            /\ event' = Ended("alarm", j, "skipped", "none", 0, 0)
            /\ UNCHANGED <<apc, mem, firstFire>>
       ELSE /\ apc' = [apc EXCEPT ![j] = "pa_start"]
            /\ mem' = [mem EXCEPT ![j] = store[j]]
            /\ firstFire' = [firstFire EXCEPT ![j] = FirstFire(@, j)]
            /\ event' = NoEvent
            /\ UNCHANGED alarmArmed
  /\ UNCHANGED <<kv, keyCache, prop, verif, deployment, apiKey, store, alarmState, expired, hpc, procs, nreq,
                 crashes, taskRuns, exTask, exLog, exProp>>

\* ------------------------------------------- Durable Object: handleStart

\* A handleStart that stores the pending record before it validates the
\* request.
HandleStartSavesFirst(j, hasEntity) ==
  /\ deployment = "durable_object"
  /\ hpc[j] = "idle"
  /\ nreq < MaxRequests
  /\ nreq' = nreq + 1
  /\ IF Exists(store[j])
       THEN /\ event' = Accepted(j, FALSE)
            /\ UNCHANGED <<hpc, store>>
       ELSE IF ~hasEntity
         THEN /\ event' = Rejected(j, 400, TRUE)
              /\ store' = [store EXCEPT ![j] = InitialState(j)]
              /\ UNCHANGED hpc
         ELSE /\ hpc' = [hpc EXCEPT ![j] = "hs_save"]
              /\ event' = NoEvent
              /\ UNCHANGED store
  /\ UNCHANGED <<kv, keyCache, prop, verif, deployment, apiKey, alarmState, alarmArmed,
                 expired, apc, mem, procs, crashes, taskRuns, exTask, exLog, exProp,
                 firstFire>>

\* handleStart up to its first write: the existing-record check and the
\* entity_id validation (agent-job.ts 33-49).
HandleStart(j, hasEntity) ==
  /\ deployment = "durable_object"
  /\ hpc[j] = "idle"
  /\ nreq < MaxRequests
  /\ nreq' = nreq + 1
  /\ IF Exists(store[j])
       THEN /\ event' = Accepted(j, FALSE)
            /\ UNCHANGED hpc
       ELSE IF ~hasEntity
         THEN /\ event' = Rejected(j, 400, TRUE)
              /\ UNCHANGED hpc
         ELSE /\ hpc' = [hpc EXCEPT ![j] = "hs_save"]
              /\ event' = NoEvent
  /\ UNCHANGED <<kv, keyCache, prop, verif, deployment, apiKey, store, alarmState, alarmArmed, expired, apc,
                 mem, procs, crashes, taskRuns, exTask, exLog, exProp, firstFire>>

\* await this.saveState(state)  (agent-job.ts 57-77); the write may be rejected.
HandleStartSave(j) ==
  /\ hpc[j] = "hs_save"
  /\ \E ok \in BOOLEAN :
       IF ok
         THEN /\ store' = [store EXCEPT ![j] = InitialState(j)]
              /\ hpc' = [hpc EXCEPT ![j] = "hs_alarm_state"]
              /\ event' = NoEvent
         ELSE /\ hpc' = [hpc EXCEPT ![j] = "idle"]
              /\ event' = Rejected(j, 500, TRUE)
              /\ UNCHANGED store
  /\ UNCHANGED <<kv, keyCache, prop, verif, deployment, apiKey, alarmState, alarmArmed, expired, apc, mem, procs,
                 nreq, crashes, taskRuns, exTask, exLog, exProp, firstFire>>

\* await this.saveAlarmState({ phase: 'process' })  (agent-job.ts 80)
HandleStartAlarmState(j) ==
  /\ hpc[j] = "hs_alarm_state"
  /\ alarmState' = [alarmState EXCEPT ![j] = "process"]
  /\ hpc' = [hpc EXCEPT ![j] = "hs_schedule"]
  /\ event' = NoEvent
  /\ UNCHANGED <<kv, keyCache, prop, verif, deployment, apiKey, store, alarmArmed, expired, apc, mem, procs, nreq,
                 crashes, taskRuns, exTask, exLog, exProp, firstFire>>

\* await this.scheduleImmediateAlarm(); return { accepted: true, job_id }
\* (agent-job.ts 83-87)
HandleStartSchedule(j) ==
  /\ hpc[j] = "hs_schedule"
  /\ alarmArmed' = [alarmArmed EXCEPT ![j] = TRUE]
  /\ hpc' = [hpc EXCEPT ![j] = "idle"]
  /\ event' = Accepted(j, TRUE)
  /\ UNCHANGED <<kv, keyCache, prop, verif, deployment, apiKey, store, alarmState, expired, apc, mem, procs, nreq,
                 crashes, taskRuns, exTask, exLog, exProp, firstFire>>

\* ------------------------------------------- Durable Object: processAlarm

\* return false  (agent-job.ts 113 and 158): no more alarms needed.
ProcessAlarmResultRearm == TRUE

ProcessAlarmResult == FALSE

\* The running transition is written whatever the status of the record.
NeedsRunningTransitionAlways(st) == TRUE

\* if (state.status === 'pending')  (agent-job.ts 101)
NeedsRunningTransition(st) == st.status = "pending"

\* if (state.status === 'pending') { ... await this.saveState(state) }
\* (agent-job.ts 100-106)
ProcessAlarmStart(j) ==
  /\ apc[j] = "pa_start"
  /\ IF NeedsRunningTransition(mem[j])
       THEN \E ok \in BOOLEAN :
              IF ok
                THEN /\ mem' = [mem EXCEPT ![j] = MarkRunning(@)]
                     /\ store' = [store EXCEPT ![j] = MarkRunning(mem[j])]
                     /\ apc' = [apc EXCEPT ![j] = "pa_expiry"]
                     /\ event' = NoEvent
                     /\ UNCHANGED <<alarmArmed, exTask, exLog, exProp>>
                ELSE /\ AlarmThrows(j)
                     /\ UNCHANGED store
       ELSE /\ apc' = [apc EXCEPT ![j] = "pa_expiry"]
            /\ event' = NoEvent
            /\ UNCHANGED <<mem, store, alarmArmed, exTask, exLog, exProp>>
  /\ UNCHANGED <<kv, keyCache, prop, verif, deployment, apiKey, alarmState, expired, hpc, procs, nreq, crashes,
                 taskRuns, firstFire>>

\* if (this.isExpired(state)) { await this.failJob(state, 'EXPIRED', ...) ... }
\* (agent-job.ts 108-114, up to writeLog); otherwise new ArkeClient(...),
\* outside the try, and the call of runTask (agent-job.ts 116-131).
ProcessAlarmExpiry(j) ==
  /\ apc[j] = "pa_expiry"
  /\ IF IsExpired(j)
       THEN /\ \E ok \in BOOLEAN :
                 IF ok
                   THEN /\ mem' = [mem EXCEPT ![j] =
                                  FailJob(@, "EXPIRED", "Job expired before completion")]
                        /\ store' = [store EXCEPT ![j] =
                                  FailJob(mem[j], "EXPIRED", "Job expired before completion")]
                        /\ apc' = [apc EXCEPT ![j] = "wl_log"]
                        /\ event' = NoEvent
                        /\ UNCHANGED <<alarmArmed, exTask, exLog, exProp>>
                   ELSE /\ AlarmThrows(j)
                        /\ UNCHANGED store
            /\ UNCHANGED taskRuns
       ELSE /\ \E clientOk \in BOOLEAN :
                 IF clientOk
                   THEN /\ taskRuns' = [taskRuns EXCEPT ![j] = @ + 1]
                        /\ apc' = [apc EXCEPT ![j] = "pa_await"]
                        /\ event' = NoEvent
                        /\ UNCHANGED <<mem, alarmArmed, exTask, exLog, exProp>>
                   ELSE /\ AlarmThrows(j)
                        /\ UNCHANGED taskRuns
            /\ UNCHANGED store
  /\ UNCHANGED <<kv, keyCache, prop, verif, deployment, apiKey, alarmState, expired, hpc, procs, nreq, crashes,
                 firstFire>>

\* runTask settles: the try's success branch or its catch (agent-job.ts 133-153)
ProcessAlarmTaskSettles(j) ==
  /\ apc[j] = "pa_await"
  /\ \/ /\ mem' = [mem EXCEPT ![j] = MarkDone(@)]
        /\ exTask' = [exTask EXCEPT ![j] = "ok"]
     \/ \E t \in Thrown :
          /\ mem' = [mem EXCEPT ![j] = MarkTaskFailed(@, t)]
          /\ exTask' = [exTask EXCEPT ![j] = "threw"]
  /\ apc' = [apc EXCEPT ![j] = "pa_save"]
  /\ event' = NoEvent
  /\ UNCHANGED <<kv, keyCache, prop, verif, deployment, apiKey, store, alarmState, alarmArmed, expired, hpc, procs,
                 nreq, crashes, taskRuns, exLog, exProp, firstFire>>

\* The deadline is looked at again when the task has settled: a job whose
\* expires_at has passed is saved as failed with EXPIRED.
SavedStateChecksExpiry(j) ==
  IF IsExpired(j)
    THEN FailJob(MarkRunning(mem[j]), "EXPIRED", "Job expired before completion")
    ELSE mem[j]

\* The state processAlarm saves after the try/catch: the outcome of the task,
\* whatever the clock says (agent-job.ts 134-155).
SavedState(j) == mem[j]

\* await this.saveState(state)  (agent-job.ts 155)
ProcessAlarmSave(j) ==
  /\ apc[j] = "pa_save"
  /\ \E ok \in BOOLEAN :
       IF ok
         THEN /\ store' = [store EXCEPT ![j] = SavedState(j)]
              /\ apc' = [apc EXCEPT ![j] = "wl_log"]
              /\ event' = NoEvent
              /\ UNCHANGED <<mem, alarmArmed, exTask, exLog, exProp>>
         ELSE /\ AlarmThrows(j)
              /\ UNCHANGED store
  /\ UNCHANGED <<kv, keyCache, prop, verif, deployment, apiKey, alarmState, expired, hpc, procs, nreq, crashes,
                 taskRuns, firstFire>>

\* writeLog up to the call of updateJobCollectionStatus: the client is built
\* and writeJobLog is awaited inside the try; whatever is thrown is caught,
\* writeLog returns, and processAlarm returns false  (agent-job.ts 165-193).
WriteLog(j) ==
  /\ apc[j] = "wl_log"
  /\ \/ \* new ArkeClient throws: caught, writeJobLog was not called
        AlarmReturns(j, ProcessAlarmResult, exLog[j], exProp[j])
     \/ \* writeJobLog throws: caught, updateJobCollectionStatus is skipped
        AlarmReturns(j, ProcessAlarmResult, exLog[j] + 1, exProp[j])
     \/ \* writeJobLog returns
        /\ exLog' = [exLog EXCEPT ![j] = @ + 1]
        /\ apc' = [apc EXCEPT ![j] = "wl_prop"]
        /\ event' = NoEvent
        /\ UNCHANGED <<mem, alarmArmed, exTask, exProp>>
  /\ UNCHANGED <<kv, keyCache, prop, verif, deployment, apiKey, store, alarmState, expired, hpc, procs, nreq,
                 crashes, taskRuns, firstFire>>

\* await this.updateJobCollectionStatus(client, state): it handles its own
\* failures and returns; then processAlarm returns false (agent-job.ts 189, 199-254).
UpdateJobCollectionStatus(j) ==
  /\ apc[j] = "wl_prop"
  /\ AlarmEnds(j, ProcessAlarmResult)
  /\ event' = [Ended("alarm", j, "returned", exTask[j], exLog[j], exProp[j] + 1)
                 EXCEPT !.ret = ProcessAlarmResult, !.propagated = FinalStatus(mem[j])]
  /\ UNCHANGED <<kv, keyCache, prop, verif, deployment, apiKey, store, alarmState, expired, hpc, procs, nreq,
                 crashes, taskRuns, firstFire>>

\* The Durable Object's process dies: the live handleStart and alarm execution
\* of the job are lost with their memory; storage and the owed alarm survive.
CrashDO(j) ==
  /\ deployment = "durable_object"
  /\ crashes < MaxCrashes
  /\ hpc[j] # "idle" \/ apc[j] # "idle"
  /\ crashes' = crashes + 1
  /\ hpc' = [hpc EXCEPT ![j] = "idle"]
  /\ AlarmEnds(j, alarmArmed[j])
  /\ event' = Ended(IF apc[j] # "idle" THEN "alarm" ELSE "handleStart", j, "crashed",
                    exTask[j], exLog[j], exProp[j])
  /\ UNCHANGED <<kv, keyCache, prop, verif, deployment, apiKey, store, alarmState, expired, procs, nreq, taskRuns,
                 firstFire>>

\* ------------------------------------------- Worker: POST /process

\* env.ARKE_API_BASE, the authority the agent is configured for.
ARKE_API_BASE == "https://arke-v1.arke.institute"

\* What a request carries: the X-Arke-Signature header, a JSON body, a
\* signature that verifies, job_id/target/job_collection, input.entity_id.
\* The checks run in this order and the first failure answers, so the shapes
\* are the well-formed request and the requests with one part missing.
WellFormed ==
  [header |-> TRUE, json |-> TRUE, signed |-> TRUE, fields |-> TRUE, entity |-> TRUE,
   api_base |-> ARKE_API_BASE]

\* As the shapes above, and the well-formed request of another origin: its
\* body names that origin as api_base and its signature verifies under the
\* key that origin serves.
RequestShapes ==
  {WellFormed,
   [WellFormed EXCEPT !.header = FALSE], [WellFormed EXCEPT !.json = FALSE],
   [WellFormed EXCEPT !.signed = FALSE], [WellFormed EXCEPT !.fields = FALSE],
   [WellFormed EXCEPT !.entity = FALSE],
   [WellFormed EXCEPT !.api_base = "https://other.example"]}

\* The checks without the signature verification.
GateCodeUnverified(q) ==
  IF ~q.header THEN 401
  ELSE IF ~q.json THEN 400
  ELSE IF ~q.fields THEN 400
  ELSE IF ~q.entity THEN 400
  ELSE IF ~apiKey THEN 503
  ELSE 0

\* The checks with the missing header answered like a malformed body.
GateCodeMalformed(q) ==
  IF ~q.header THEN 400
  ELSE IF ~q.json THEN 400
  ELSE IF ~q.signed THEN 401
  ELSE IF ~q.fields THEN 400
  ELSE IF ~q.entity THEN 400
  ELSE IF ~apiKey THEN 503
  ELSE 0

\* The status code of the first failing check, 0 when all pass (index.ts 38-90).
GateCode(q) ==
  IF ~q.header THEN 401
  ELSE IF ~q.json THEN 400
  ELSE IF ~q.signed THEN 401
  ELSE IF ~q.fields THEN 400
  ELSE IF ~q.entity THEN 400
  ELSE IF ~apiKey THEN 503
  ELSE 0

\* The whole handler: the checks, saveJobState of the pending record,
\* waitUntil(processJob(...)) and the response (index.ts 28-116). processJob
\* runs within the handler up to its first await: it builds the client (a
\* throw there rejects the promise, which the .catch logs) and sets
\* state.status = 'running' for the write it then awaits (index.ts 122-132).
PostProcess(j, q) ==
  /\ deployment = "worker"
  /\ nreq < MaxRequests
  /\ nreq' = nreq + 1
  /\ IF GateCode(q) # 0
       THEN /\ event' = Response(Rejected(j, GateCode(q), ~Exists(store[j])), q)
            /\ UNCHANGED <<store, procs, firstFire>>
       ELSE \E ok \in BOOLEAN :
              IF ok
                THEN /\ store' = [store EXCEPT ![JobKey(InitialJobState(j))] =
                                                  InitialJobState(j)]
                     /\ \E clientOk \in BOOLEAN :
                          procs' = [procs EXCEPT ![nreq + 1] =
                            IF clientOk
                              THEN [job |-> j, pc |-> "pj_running",
                                    st |-> JobRunning(InitialJobState(j)),
                                    task |-> "none", nlog |-> 0]
                              ELSE IdleProc]
                     /\ firstFire' = [firstFire EXCEPT ![j] = FirstFire(@, j)]
                     /\ event' = Response(Accepted(j, ~Exists(store[j])), q)
                ELSE /\ event' = Response(Rejected(j, 500, ~Exists(store[j])), q)
                     /\ UNCHANGED <<store, procs, firstFire>>
  /\ UNCHANGED <<kv, keyCache, prop, verif, deployment, apiKey, alarmState, alarmArmed, expired, hpc, apc, mem,
                 crashes, taskRuns, exTask, exLog, exProp>>

\* ------------------------------------------- Worker: processJob

\* The processJob call of request r ends; its slot is free again.
JobEnds(r, how, nlog) ==
  /\ procs' = [procs EXCEPT ![r] = IdleProc]
  /\ event' = Ended("processJob", procs[r].job, how, procs[r].task, nlog, 0)

\* await saveJobState(...) of the running record, inside the try: when it
\* resolves runTask is called; a rejected write lands in the catch
\* (index.ts 129-144, 152-162).
ProcessJobRunning(r) ==
  /\ procs[r].pc = "pj_running"
  /\ \/ /\ store' = [store EXCEPT ![JobKey(procs[r].st)] = procs[r].st]
        /\ taskRuns' = [taskRuns EXCEPT ![procs[r].job] = @ + 1]
        /\ procs' = [procs EXCEPT ![r].pc = "pj_await"]
     \/ \E t \in Thrown :
          /\ procs' = [procs EXCEPT ![r].st = JobError(@, t), ![r].pc = "pj_log"]
          /\ UNCHANGED <<store, taskRuns>>
  /\ event' = NoEvent
  /\ UNCHANGED <<kv, keyCache, prop, verif, deployment, apiKey, alarmState, alarmArmed, expired, hpc, apc, mem,
                 nreq, crashes, exTask, exLog, exProp, firstFire>>

\* runTask settles: done, or the catch (index.ts 146-162)
ProcessJobTaskSettles(r) ==
  /\ procs[r].pc = "pj_await"
  /\ \/ procs' = [procs EXCEPT ![r].st = JobDone(@), ![r].task = "ok",
                               ![r].pc = "pj_log"]
     \/ \E t \in Thrown :
          procs' = [procs EXCEPT ![r].st = JobError(@, t), ![r].task = "threw",
                                 ![r].pc = "pj_log"]
  /\ event' = NoEvent
  /\ UNCHANGED <<kv, keyCache, prop, verif, deployment, apiKey, store, alarmState, alarmArmed, expired, hpc, apc,
                 mem, nreq, crashes, taskRuns, exTask, exLog, exProp, firstFire>>

\* try { await writeJobLog(...) } catch { log }: either way on to the final
\* save (index.ts 164-179).
ProcessJobLog(r) ==
  /\ procs[r].pc = "pj_log"
  /\ procs' = [procs EXCEPT ![r].nlog = @ + 1, ![r].pc = "pj_final"]
  /\ event' = NoEvent
  /\ UNCHANGED <<kv, keyCache, prop, verif, deployment, apiKey, store, alarmState, alarmArmed, expired, hpc, apc,
                 mem, nreq, crashes, taskRuns, exTask, exLog, exProp, firstFire>>

\* await saveJobState(env.JOBS, state), outside any try (index.ts 181-182).
ProcessJobFinal(r) ==
  /\ procs[r].pc = "pj_final"
  /\ \/ /\ store' = [store EXCEPT ![JobKey(procs[r].st)] = procs[r].st]
        /\ JobEnds(r, "returned", procs[r].nlog)
     \/ /\ JobEnds(r, "threw", procs[r].nlog)
        /\ UNCHANGED store
  /\ UNCHANGED <<kv, keyCache, prop, verif, deployment, apiKey, alarmState, alarmArmed, expired, hpc, apc, mem,
                 nreq, crashes, taskRuns, exTask, exLog, exProp, firstFire>>

IsLive(p) == p.pc # "unused"

\* The Worker isolate dies: every background processJob is lost; nothing
\* restarts it.
CrashWorker ==
  /\ deployment = "worker"
  /\ crashes < MaxCrashes
  /\ \E r \in Requests : IsLive(procs[r])
  /\ crashes' = crashes + 1
  /\ procs' = [r \in Requests |-> IdleProc]
  /\ event' = Ended("processJob", "none", "crashed", "none", 0, 0)
  /\ UNCHANGED <<kv, keyCache, prop, verif, deployment, apiKey, store, alarmState, alarmArmed, expired, hpc, apc,
                 mem, nreq, taskRuns, exTask, exLog, exProp, firstFire>>

\* ------------------------------------------- time

\* The clock passes the job's expires_at.
Expire(j) ==
  /\ ~expired[j]
  /\ expired' = [expired EXCEPT ![j] = TRUE]
  /\ event' = NoEvent
  /\ UNCHANGED <<kv, keyCache, prop, verif, deployment, apiKey, store, alarmState, alarmArmed, hpc, apc, mem,
                 procs, nreq, crashes, taskRuns, exTask, exLog, exProp, firstFire>>

\* ------------------------------------------- updateJobCollectionStatus
\* The propagation of one terminal job to its job collection, step by step
\* (agent-job.ts 199-254). Init of PropSpec is the moment writeLog calls it.

\* const maxRetries = 3
MaxRetries == 3

\* The base of the backoff and the width of its jitter, in milliseconds:
\* Math.pow(2, attempt) * 100 + Math.random() * 100
BackoffBase == 100

JitterWidth == 100

\* Math.random() * 100 lies in [0, 100): its ends and its middle.
Jitters == {0, JitterWidth \div 2, JitterWidth - 1}

\* A delay that shrinks with the attempt.
DelayShrinking(attempt, jitter) == (MaxRetries - attempt) * BackoffBase - jitter

\* const delay = Math.pow(2, attempt) * 100 + Math.random() * 100
Delay(attempt, jitter) == 2 ^ attempt * BackoffBase + jitter

\* A catch that waits the base delay after every attempt.
DelayCaughtFlat(attempt, jitter) == BackoffBase + jitter

\* The delay of the catch block (agent-job.ts 247): the same expression.
DelayCaught(attempt, jitter) == 2 ^ attempt * BackoffBase + jitter

\* What client.api.GET('/collections/{id}') does: it resolves with the
\* collection, resolves without data (not found, or an error response), or throws.
GetResponses == {"found", "absent", "threw"}

\* What client.api.PUT does: no error, a 409 / Conflict error, another error
\* response, or a throw.
PutResponses == {"ok", "conflict", "error", "threw"}

\* if (!collection) { ...; return }: where the call goes after a read.
AfterReadAlwaysPut(resp) == "put"

AfterRead(resp) == IF resp = "absent" THEN "done" ELSE "put"

\* The attempt runs inside try { ... } catch (err) { ... } (agent-job.ts 207, 244).
PropCatchesNothing == FALSE

PropCatches == TRUE

\* A propagation step that also resets the job's record.
PropFrameUncompletes ==
  /\ store' = [store EXCEPT ![prop.job] = InitialState(prop.job)]
  /\ UNCHANGED <<deployment, apiKey, alarmState, alarmArmed, expired, hpc, apc,
                 mem, procs, nreq, crashes, event, taskRuns, exTask, exLog, exProp,
                 firstFire, verif, kv, keyCache>>

\* updateJobCollectionStatus reads `state` and talks to the collection API; it
\* writes nothing but its own locals.
PropFrame ==
  UNCHANGED <<deployment, apiKey, store, alarmState, alarmArmed, expired, hpc, apc,
              mem, procs, nreq, crashes, event, taskRuns, exTask, exLog, exProp,
              firstFire, verif, kv, keyCache>>

\* The call is over: result says how.
PropEnds(p, result) == [p EXCEPT !.pc = "done", !.result = result]

\* A catch that waits and goes on whatever the attempt.
PropCaughtAlwaysWaits(p) == [p EXCEPT !.pc = "wait", !.cause = "caught"]

\* Something was thrown inside the try: the catch logs, waits when
\* attempt < maxRetries - 1, and the loop goes on; after the last attempt the
\* loop ends and the function returns (agent-job.ts 244-253).
PropCaught(p) ==
  IF ~PropCatches THEN PropEnds(p, "threw")
  ELSE IF p.attempt < MaxRetries - 1 THEN [p EXCEPT !.pc = "wait", !.cause = "caught"]
  ELSE PropEnds(p, "exhausted")

\* The version is read in the first successful GET and kept for every
\* later attempt.
CidReadOnce(p) == IF p.cid = 0 THEN [p EXCEPT !.cid = p.tip, !.readIn = p.attempt] ELSE p

\* const { data: collection } = ...: collection is a constant of the loop
\* body, so collection.cid is the version this attempt read (agent-job.ts
\* 208-210, 222).
CidRead(p) == [p EXCEPT !.cid = p.tip, !.readIn = p.attempt]

\* What the collection API can answer to a PUT with expect_tip: success only
\* when expect_tip is the current version, a conflict only when it is not.
PutResponsesAt(p) ==
  {resp \in PutResponses :
     /\ resp = "ok" => p.cid = p.tip
     /\ resp = "conflict" => p.cid # p.tip}

\* The tag of the PUT the call sends now.
PutTag(p) == [expect |-> p.cid, readIn |-> p.readIn, attempt |-> p.attempt, tip |-> p.tip]

\* const { data: collection } = await client.api.GET(...); if (!collection)
\* return  (agent-job.ts 208-216)
PropGet ==
  /\ prop.pc = "get"
  /\ \E resp \in GetResponses :
       LET p == [prop EXCEPT !.gets = Append(@, resp)]
       IN prop' = IF resp = "threw" THEN PropCaught(p)
                  ELSE IF AfterRead(resp) = "done" THEN PropEnds(p, "absent")
                  ELSE [CidRead(p) EXCEPT !.pc = "put"]
  /\ PropFrame

\* A sibling task of the same job group updates the collection while the
\* call is under way.
PropSibling ==
  /\ prop.pc \in {"get", "put", "wait"}
  /\ prop.tip < 1 + MaxSiblingWrites
  /\ prop' = [prop EXCEPT !.tip = @ + 1]
  /\ PropFrame

\* const { error: updateError } = await client.api.PUT(...) and what follows
\* it in the try (agent-job.ts 218-243): a conflict is retried while
\* attempt < maxRetries - 1; any other error response is logged and ends the call.
PropPut ==
  /\ prop.pc = "put"
  /\ \E resp \in PutResponsesAt(prop) :
       LET p == [prop EXCEPT !.puts = Append(@, resp), !.tags = Append(@, PutTag(prop))]
       IN prop' =
            CASE resp = "ok" ->
                   PropEnds([p EXCEPT !.written = FinalStatus(store[prop.job]),
                                      !.tip = @ + 1], "updated")
              [] resp = "conflict" ->
                   IF p.attempt < MaxRetries - 1
                     THEN [p EXCEPT !.pc = "wait", !.cause = "conflict"]
                   ELSE PropEnds(p, "failed")
              [] resp = "error" -> PropEnds(p, "failed")
              [] resp = "threw" -> PropCaught(p)
  /\ PropFrame

\* await new Promise(resolve => setTimeout(resolve, delay)), then the next
\* iteration of the loop (agent-job.ts 232-235, 247-248, 206).
PropWait ==
  /\ prop.pc = "wait"
  /\ \E jitter \in Jitters :
       LET delay == IF prop.cause = "caught" THEN DelayCaught(prop.attempt, jitter)
                    ELSE Delay(prop.attempt, jitter)
       IN prop' = [prop EXCEPT !.waits = Append(@, delay), !.attempt = @ + 1,
                               !.pc = "get", !.cause = "none"]
  /\ PropFrame

\* The records with which processAlarm reaches writeLog.
TerminalRecords(j) ==
  {MarkDone(MarkRunning(InitialState(j))),
   FailJob(MarkRunning(InitialState(j)), "EXPIRED", "Job expired before completion")}
    \cup {MarkTaskFailed(MarkRunning(InitialState(j)), t) : t \in Thrown}

\* writeLog calls updateJobCollectionStatus(client, state) for one terminal job.
PropInit ==
  /\ deployment = "durable_object"
  /\ apiKey = TRUE
  /\ \E j \in Jobs : \E rec \in TerminalRecords(j) :
       /\ store = [k \in Jobs |-> IF k = j THEN rec ELSE NoRec]
       /\ prop = [IdleProp EXCEPT !.job = j, !.pc = "get"]
  /\ alarmState = [j \in Jobs |-> "none"]
  /\ alarmArmed = [j \in Jobs |-> FALSE]
  /\ expired = [j \in Jobs |-> FALSE]
  /\ hpc = [j \in Jobs |-> "idle"]
  /\ apc = [j \in Jobs |-> "idle"]
  /\ mem = [j \in Jobs |-> NoRec]
  /\ procs = [r \in Requests |-> IdleProc]
  /\ nreq = 0
  /\ crashes = 0
  /\ event = NoEvent
  /\ taskRuns = [j \in Jobs |-> 0]
  /\ exTask = [j \in Jobs |-> "none"]
  /\ exLog = [j \in Jobs |-> 0]
  /\ exProp = [j \in Jobs |-> 0]
  /\ firstFire = [j \in Jobs |-> "unfired"]
  /\ verif = IdleVerif
  /\ kv = IdleKv
  /\ keyCache = IdleKeyCache

PropNext == PropGet \/ PropPut \/ PropWait \/ PropSibling

PropSpec == PropInit /\ [][PropNext]_vars

\* Every response arrives and every timer fires.
PropFairSpec == PropSpec /\ WF_vars(PropNext)

\* ------------------------------------------- verifyArkeSignature
\* verify.ts is not among the sources; the verifier is modelled from the
\* specification (4.1) and from the description of verify.ts in the
\* implementation plan: parse the header t=<unix-seconds>,v1=<signature>,
\* get the authority's key, verify the signature over "{t}.{body}", check
\* the freshness of t. Times are in seconds.

\* 5 min max age, 1 min future tolerance.
MaxAge == 300

MaxFuture == 60

\* The clock at the call, and t relative to it: on and around both limits,
\* and 6 minutes in the past.
Nows == {1000, 2000}

Offsets == {0 - 360, 0 - 301, 0 - 300, 0 - 299, 0, 59, 60, 61}

\* A verifier that does not look at the age of t.
FreshnessUnchecked(now, t) == "fresh"

\* Freshness policy: now - t > 5 minutes is STALE, t - now > 1 minute is
\* FUTURE_TIMESTAMP.
Freshness(now, t) ==
  IF now - t > MaxAge THEN "STALE"
  ELSE IF t - now > MaxFuture THEN "FUTURE_TIMESTAMP"
  ELSE "fresh"

\* The error of the VerifyResult, "none" when the request is valid.
VerifyError(v) ==
  IF ~v.header THEN "INVALID_HEADER"
  ELSE IF ~v.key THEN "KEY_FETCH_FAILED"
  ELSE IF ~v.signature THEN "BAD_SIGNATURE"
  ELSE IF Freshness(v.now, v.t) # "fresh" THEN Freshness(v.now, v.t)
  ELSE "none"

\* verifyArkeSignature(body, signatureHeader, apiBase) resolves.
VerifyArkeSignature ==
  /\ verif.pc = "call"
  /\ verif' = [verif EXCEPT !.pc = "done", !.error = VerifyError(verif),
                            !.valid = (VerifyError(verif) = "none")]
  /\ UNCHANGED <<kv, keyCache, prop, deployment, apiKey, store, alarmState, alarmArmed, expired,
                 hpc, apc, mem, procs, nreq, crashes, event, taskRuns, exTask, exLog,
                 exProp, firstFire>>

\* A request arrives at the verifier.
VerifyInit ==
  /\ deployment = "worker"
  /\ apiKey = TRUE
  /\ \E now \in Nows : \E o \in Offsets :
     \E header \in BOOLEAN : \E key \in BOOLEAN : \E signature \in BOOLEAN :
       verif = [IdleVerif EXCEPT !.pc = "call", !.now = now, !.t = now + o,
                                 !.header = header, !.key = key,
                                 !.signature = signature]
  /\ store = [j \in Jobs |-> NoRec]
  /\ alarmState = [j \in Jobs |-> "none"]
  /\ alarmArmed = [j \in Jobs |-> FALSE]
  /\ expired = [j \in Jobs |-> FALSE]
  /\ hpc = [j \in Jobs |-> "idle"]
  /\ apc = [j \in Jobs |-> "idle"]
  /\ mem = [j \in Jobs |-> NoRec]
  /\ procs = [r \in Requests |-> IdleProc]
  /\ nreq = 0
  /\ crashes = 0
  /\ event = NoEvent
  /\ taskRuns = [j \in Jobs |-> 0]
  /\ exTask = [j \in Jobs |-> "none"]
  /\ exLog = [j \in Jobs |-> 0]
  /\ exProp = [j \in Jobs |-> 0]
  /\ firstFire = [j \in Jobs |-> "unfired"]
  /\ prop = IdleProp
  /\ kv = IdleKv
  /\ keyCache = IdleKeyCache

VerifyNext == VerifyArkeSignature

VerifySpec == VerifyInit /\ [][VerifyNext]_vars

\* ------------------------------------------- state.ts over KV

\* The clock of the namespace advances by half the time-to-live.
KvTick ==
  /\ kv.now < MaxTicks * (KV_TTL \div 2)
  /\ kv' = [kv EXCEPT !.now = @ + KV_TTL \div 2, !.last = [NoOp EXCEPT !.op = "tick"]]
  /\ UNCHANGED <<keyCache, prop, verif, deployment, apiKey, store, alarmState,
                 alarmArmed, expired, hpc, apc, mem, procs, nreq, crashes, event,
                 taskRuns, exTask, exLog, exProp, firstFire>>

\* saveJobState(kv, state)
SaveJobState(state) ==
  /\ kv' = [kv EXCEPT !.data[Key(state.job_id)] =
                        KvPut(Stringify(state), PutOptions, kv.now, state),
                      !.last = [NoOp EXCEPT !.op = "save", !.job = state.job_id]]
  /\ UNCHANGED <<keyCache, prop, verif, deployment, apiKey, store, alarmState,
                 alarmArmed, expired, hpc, apc, mem, procs, nreq, crashes, event,
                 taskRuns, exTask, exLog, exProp, firstFire>>

\* getJobState(kv, jobId): null for a missing or expired value.
GetJobState(jobId) ==
  /\ LET entry == kv.data[Key(jobId)]
     IN kv' = [kv EXCEPT !.last =
                 IF Readable(entry, kv.now)
                   THEN [op |-> "get", job |-> jobId, found |-> TRUE,
                         state |-> Parse(entry.text)]
                   ELSE [op |-> "get", job |-> jobId, found |-> FALSE,
                         state |-> NoState]]
  /\ UNCHANGED <<keyCache, prop, verif, deployment, apiKey, store, alarmState,
                 alarmArmed, expired, hpc, apc, mem, procs, nreq, crashes, event,
                 taskRuns, exTask, exLog, exProp, firstFire>>

StoreInit ==
  /\ deployment = "worker"
  /\ apiKey = TRUE
  /\ store = [j \in Jobs |-> NoRec]
  /\ alarmState = [j \in Jobs |-> "none"]
  /\ alarmArmed = [j \in Jobs |-> FALSE]
  /\ expired = [j \in Jobs |-> FALSE]
  /\ hpc = [j \in Jobs |-> "idle"]
  /\ apc = [j \in Jobs |-> "idle"]
  /\ mem = [j \in Jobs |-> NoRec]
  /\ procs = [r \in Requests |-> IdleProc]
  /\ nreq = 0
  /\ crashes = 0
  /\ event = NoEvent
  /\ taskRuns = [j \in Jobs |-> 0]
  /\ exTask = [j \in Jobs |-> "none"]
  /\ exLog = [j \in Jobs |-> 0]
  /\ exProp = [j \in Jobs |-> 0]
  /\ firstFire = [j \in Jobs |-> "unfired"]
  /\ prop = IdleProp
  /\ verif = IdleVerif
  /\ kv = IdleKv
  /\ keyCache = IdleKeyCache

StoreNext ==
  \/ KvTick
  \/ \E j \in Jobs : \E state \in JobStates(j) : SaveJobState(state)
  \/ \E j \in Jobs : GetJobState(j)

StoreSpec == StoreInit /\ [][StoreNext]_vars

\* ------------------------------------------- getArkePublicKey

\* The clock of the process advances by half the cache lifetime.
CacheTick ==
  /\ keyCache.now < MaxCacheTicks * (CACHE_TTL \div 2)
  /\ keyCache' = [keyCache EXCEPT !.now = @ + CACHE_TTL \div 2,
                                  !.last = [NoLookup EXCEPT !.op = "tick"]]
  /\ UNCHANGED <<kv, prop, verif, deployment, apiKey, store, alarmState,
                 alarmArmed, expired, hpc, apc, mem, procs, nreq, crashes, event,
                 taskRuns, exTask, exLog, exProp, firstFire>>

\* getArkePublicKey(apiBase): a usable cached key is returned without a
\* fetch; otherwise the key is fetched once, and cached when the fetch
\* succeeds (fetchOk).
GetArkePublicKey(apiBase, fetchOk) ==
  /\ LET entry == keyCache.cache[apiBase]
         lookup == [NoLookup EXCEPT !.op = "verify", !.origin = apiBase,
                                    !.cached = entry.present,
                                    !.fetchedAt = entry.fetchedAt]
     IN IF CacheFresh(entry, keyCache.now)
          THEN keyCache' = [keyCache EXCEPT !.last = [lookup EXCEPT !.key = TRUE]]
          ELSE keyCache' =
                 [keyCache EXCEPT
                    !.cache[apiBase] =
                       IF fetchOk THEN [present |-> TRUE, fetchedAt |-> keyCache.now]
                                  ELSE @,
                    !.last = [lookup EXCEPT !.fetches = 1, !.key = fetchOk]]
  /\ UNCHANGED <<kv, prop, verif, deployment, apiKey, store, alarmState,
                 alarmArmed, expired, hpc, apc, mem, procs, nreq, crashes, event,
                 taskRuns, exTask, exLog, exProp, firstFire>>

KeyInit ==
  /\ deployment = "worker"
  /\ apiKey = TRUE
  /\ store = [j \in Jobs |-> NoRec]
  /\ alarmState = [j \in Jobs |-> "none"]
  /\ alarmArmed = [j \in Jobs |-> FALSE]
  /\ expired = [j \in Jobs |-> FALSE]
  /\ hpc = [j \in Jobs |-> "idle"]
  /\ apc = [j \in Jobs |-> "idle"]
  /\ mem = [j \in Jobs |-> NoRec]
  /\ procs = [r \in Requests |-> IdleProc]
  /\ nreq = 0
  /\ crashes = 0
  /\ event = NoEvent
  /\ taskRuns = [j \in Jobs |-> 0]
  /\ exTask = [j \in Jobs |-> "none"]
  /\ exLog = [j \in Jobs |-> 0]
  /\ exProp = [j \in Jobs |-> 0]
  /\ firstFire = [j \in Jobs |-> "unfired"]
  /\ prop = IdleProp
  /\ verif = IdleVerif
  /\ kv = IdleKv
  /\ keyCache = IdleKeyCache

KeyNext ==
  \/ CacheTick
  \/ \E apiBase \in Origins : \E fetchOk \in BOOLEAN : GetArkePublicKey(apiBase, fetchOk)

KeySpec == KeyInit /\ [][KeyNext]_vars

\* ------------------------------------------- specification

Next ==
  \/ \E j \in Jobs : \E hasEntity \in BOOLEAN : HandleStart(j, hasEntity)
  \/ \E j \in Jobs : HandleStartSave(j)
  \/ \E j \in Jobs : HandleStartAlarmState(j)
  \/ \E j \in Jobs : HandleStartSchedule(j)
  \/ \E j \in Jobs : AlarmFire(j)
  \/ \E j \in Jobs : ProcessAlarmStart(j)
  \/ \E j \in Jobs : ProcessAlarmExpiry(j)
  \/ \E j \in Jobs : ProcessAlarmTaskSettles(j)
  \/ \E j \in Jobs : ProcessAlarmSave(j)
  \/ \E j \in Jobs : WriteLog(j)
  \/ \E j \in Jobs : UpdateJobCollectionStatus(j)
  \/ \E j \in Jobs : CrashDO(j)
  \/ \E j \in Jobs : \E q \in RequestShapes : PostProcess(j, q)
  \/ \E r \in Requests : ProcessJobRunning(r)
  \/ \E r \in Requests : ProcessJobTaskSettles(r)
  \/ \E r \in Requests : ProcessJobLog(r)
  \/ \E r \in Requests : ProcessJobFinal(r)
  \/ CrashWorker
  \/ \E j \in Jobs : Expire(j)

Spec == Init /\ [][Next]_vars

\* Every started handler step is eventually taken and an armed alarm is
\* eventually delivered; requests, crashes and the deadline are not forced.
Fairness ==
  /\ \A j \in Jobs :
       /\ WF_vars(HandleStartSave(j))
       /\ WF_vars(HandleStartAlarmState(j))
       /\ WF_vars(HandleStartSchedule(j))
       /\ WF_vars(AlarmFire(j))
       /\ WF_vars(ProcessAlarmStart(j))
       /\ WF_vars(ProcessAlarmExpiry(j))
       /\ WF_vars(ProcessAlarmTaskSettles(j))
       /\ WF_vars(ProcessAlarmSave(j))
       /\ WF_vars(WriteLog(j))
       /\ WF_vars(UpdateJobCollectionStatus(j))
  /\ \A r \in Requests :
       /\ WF_vars(ProcessJobRunning(r))
       /\ WF_vars(ProcessJobTaskSettles(r))
       /\ WF_vars(ProcessJobLog(r))
       /\ WF_vars(ProcessJobFinal(r))

FairSpec == Spec /\ Fairness

\* ------------------------------------------- properties

\* The last step answered a submission of job j with { accepted: true, job_id }.
AcceptedResponse(e, j) == e.kind = "response" /\ e.job = j /\ e.accepted

\* The last step ended an alarm execution of job j by returning.
AlarmReturned(e, j) == e.kind = "alarm" /\ e.job = j /\ e.how = "returned"

\* C1: terminal states are immutable: once the stored status of a job is done
\* or error, no step (duplicate POST /process, alarm firing, log flush,
\* status propagation) changes its status, result or error.
C1_TerminalImmutable ==
  [][\A j \in Jobs :
       Terminal(store[j]) =>
         /\ store'[j].status = store[j].status
         /\ store'[j].result = store[j].result
         /\ store'[j].error = store[j].error]_vars

\* C2: a duplicate submission, one answered for a job_id that already had a
\* record, is accepted and leaves the job store as it was: no second record,
\* no overwrite.
C2_DuplicateKeepsRecord ==
  [][\A j \in Jobs :
       (event'.kind = "response" /\ event'.job = j /\ ~event'.fresh /\ Exists(store[j]))
         => (event'.accepted /\ store' = store)]_vars

\* C3: when a request with a fresh job_id is accepted, the step that returns
\* the acceptance leaves exactly the record of that job_id in the store,
\* GET /status/:job_id answers 200 with status pending for it, and no other
\* job's record is touched by the step.
C3_FreshAcceptedIsPending ==
  [][\A j \in Jobs :
       (AcceptedResponse(event', j) /\ event'.fresh) =>
         /\ store'[j].job_id = j
         /\ store'[j].status = "pending"
         /\ store'[j].result = Absent /\ store'[j].error = Absent
         /\ \A k \in Jobs \ {j} : store'[k] = store[k]]_vars

\* C3 witness: a fresh job was just accepted and a poll shows it pending.
C3_Witness ==
  \E j \in Jobs :
    /\ AcceptedResponse(event, j) /\ event.fresh
    /\ StatusResponse(j).code = 200 /\ StatusResponse(j).status = "pending"

\* C4: in a run without a process crash, runTask is invoked at most once per
\* job_id, however often the job is submitted and the alarm fires.
C4_TaskAtMostOnce ==
  crashes = 0 => \A j \in Jobs : taskRuns[j] <= 1

C6_ExpiredSkipsRunning ==
  \A j \in Jobs :
    firstFire[j] = "expired" =>
      /\ store[j].status # "running"
      /\ taskRuns[j] = 0
      /\ Terminal(store[j]) =>
           (store[j].status = "error" /\ store[j].error[1].code = "EXPIRED")

\* C7: an alarm execution in which runTask raised ends with the record stored
\* as error{TASK_FAILED}, after exactly one writeJobLog attempt and exactly
\* one updateJobCollectionStatus invocation.
C7_TaskFailureFlushesOnce ==
  \A j \in Jobs :
    (event.kind = "alarm" /\ event.job = j /\ event.task = "threw"
       /\ event.how \in {"returned", "threw"}) =>
      /\ store[j].status = "error"
      /\ store[j].error[1].code = "TASK_FAILED"
      /\ event.nlog = 1
      /\ event.nprop = 1

\* C8: every accepted job reaches a terminal status: when a submission is
\* accepted for a job whose expires_at has passed, its stored status is
\* eventually done or error.
C8_AcceptedEventuallyTerminal ==
  \A j \in Jobs :
    (AcceptedResponse(event, j) /\ expired[j]) ~> Terminal(store[j])

\* C9: no fault escapes the execution boundary: no alarm execution and no
\* processJob call ends by throwing, and one that has ended does not leave the
\* job stored in status running.
C9_NoFaultEscapes ==
  \A j \in Jobs :
    (event.kind \in {"alarm", "processJob"} /\ event.job = j
       /\ event.how \in {"returned", "threw"}) =>
      /\ event.how = "returned"
      /\ store[j].status # "running"

\* C10: single-shot scheduling: an alarm execution that returns with the job
\* terminal returned false and leaves no alarm armed, whether or not the log
\* flush and the status propagation were reached; and no step arms the alarm
\* of a terminal job.
C10_SingleShot ==
  [][\A j \in Jobs :
       /\ (AlarmReturned(event', j) /\ Terminal(store'[j]))
            => (~event'.ret /\ ~alarmArmed'[j])
       /\ (Terminal(store'[j]) /\ ~alarmArmed[j]) => ~alarmArmed'[j]]_vars

\* C10 witness: an alarm execution returned for a terminal job although the
\* log flush failed and the propagation was never invoked; no alarm is armed.
C10_Witness ==
  \E j \in Jobs :
    /\ AlarmReturned(event, j) /\ Terminal(store[j])
    /\ event.nlog = 1 /\ event.nprop = 0
    /\ ~alarmArmed[j]

\* C11: the signature check is a gate before any job-state mutation: a
\* request without the signature header, or whose signature does not verify,
\* is rejected, writes no job record and starts no processJob and no task.
C11_SignatureGate ==
  [][(event'.kind = "response" /\ event'.req # Absent
        /\ (~event'.req[1].header \/ ~event'.req[1].signed)) =>
       /\ ~event'.accepted
       /\ store' = store
       /\ procs' = procs
       /\ taskRuns' = taskRuns]_vars

\* C11 witness: a request whose signature does not verify was answered 401
\* while the job store holds a record.
C11_Witness ==
  /\ event.kind = "response" /\ event.req # Absent
  /\ event.req[1].header /\ ~event.req[1].signed
  /\ event.code = 401
  /\ \E j \in Jobs : Exists(store[j])

\* C13: POST /process answers 401 for a missing signature header, 400 for a
\* body that is not JSON, 401 for a failed verification, 400 for a missing
\* job_id / target / job_collection or input.entity_id, 503 with retry_after
\* for an unset ARKE_API_KEY; every such answer has accepted false, and only
\* a request that passes every check is answered accepted true with its job_id.
C13_StatusCodes ==
  (event.kind = "response" /\ event.req # Absent) =>
    LET q == event.req[1]
        passed == q.header /\ q.json /\ q.signed /\ q.fields /\ q.entity
    IN /\ ~q.header => (event.code = 401 /\ ~event.accepted)
       /\ (q.header /\ ~q.json) => (event.code = 400 /\ ~event.accepted)
       /\ (q.header /\ q.json /\ ~q.signed) => (event.code = 401 /\ ~event.accepted)
       /\ (q.header /\ q.json /\ q.signed /\ (~q.fields \/ ~q.entity))
            => (event.code = 400 /\ ~event.accepted)
       /\ (passed /\ ~apiKey)
            => (event.code = 503 /\ ~event.accepted /\ event.retry_after > 0)
       /\ event.accepted => (passed /\ apiKey /\ event.job \in Jobs)
       /\ event.code \in {400, 401, 503} => ~event.accepted

\* C13 witness: an unconfigured agent answered a well-formed request with 503
\* and a retry_after.
C13_Witness ==
  /\ event.kind = "response" /\ event.req = Some(WellFormed)
  /\ event.code = 503 /\ event.retry_after > 0 /\ ~event.accepted

\* The elements of a sequence.

\* C14: when the conditional update meets a version conflict on attempts 1
\* and 2 and succeeds on attempt 3, the propagator retries after each
\* conflict, makes exactly 3 update attempts, ends with the collection status
\* written, and the wait before attempt 3 is not shorter than the wait before
\* attempt 2.
C14_ConflictsThenSuccess ==
  /\ (prop.puts \in {<<"conflict">>, <<"conflict", "conflict">>}
        /\ Range(prop.gets) = {"found"})
       => prop.pc \in {"wait", "get", "put"}
  /\ prop.puts = <<"conflict", "conflict", "ok">> =>
       /\ prop.pc = "done" /\ prop.result = "updated"
       /\ prop.written = FinalStatus(store[prop.job])
       /\ Len(prop.gets) = 3
       /\ Len(prop.waits) = 2
       /\ prop.waits[1] <= prop.waits[2]

\* C14 witness: two conflicts, then the update went through.
C14_Witness ==
  /\ prop.puts = <<"conflict", "conflict", "ok">>
  /\ prop.result = "updated"

\* C15: status propagation is bounded: at most 3 reads and at most 3
\* conditional updates, a wait only between two attempts and none after the
\* last, and the call terminates.
C15_PropagationBounded ==
  /\ [](/\ Len(prop.gets) <= 3
        /\ Len(prop.puts) <= 3
        /\ Len(prop.puts) <= Len(prop.gets)
        /\ Len(prop.waits) <= Len(prop.gets)
        /\ prop.pc # "get" => Len(prop.waits) = Len(prop.gets) - 1
        /\ prop.pc = "wait" => Len(prop.gets) < 3)
  /\ <>(prop.pc = "done")

\* C15 witness: three attempts failed by throwing; two waits lay between them.
C15_Witness ==
  /\ prop.pc = "done" /\ prop.result = "exhausted"
  /\ Len(prop.gets) = 3 /\ Len(prop.waits) = 2

\* C16: a conditional update that fails in any way (version conflict, another
\* error response, a thrown error) while fewer than 3 attempts have been made
\* is followed by a retry.
C16_EveryFailureRetried ==
  [][(prop.pc = "put" /\ Len(prop'.puts) = Len(prop.puts) + 1
        /\ prop'.puts[Len(prop'.puts)] # "ok" /\ Len(prop.gets) < 3)
       => prop'.pc = "wait"]_vars

\* C17: when the read of the job collection returns no record, the call ends
\* at once: no conditional update, no wait, no further attempt.
C17_AbsentAborts ==
  [][/\ (prop.pc = "get" /\ prop'.gets = Append(prop.gets, "absent")) =>
          /\ prop'.pc = "done" /\ prop'.result = "absent"
          /\ prop'.puts = prop.puts
          /\ prop'.waits = prop.waits
          /\ prop'.written = "none"
     /\ prop.pc = "done" => prop' = prop]_vars

\* C17 witness: the collection was gone at the second attempt.
C17_Witness ==
  /\ prop.pc = "done" /\ prop.result = "absent"
  /\ prop.gets = <<"found", "absent">> /\ Len(prop.puts) = 1

\* C18: status propagation never alters the job record: status, result, error
\* and progress are the same after every step of it, however it ends.
C18_PropagationKeepsRecord ==
  [][\A j \in Jobs :
       /\ store'[j].status = store[j].status
       /\ store'[j].result = store[j].result
       /\ store'[j].error = store[j].error
       /\ store'[j].progress = store[j].progress]_vars

\* C18 witness: all 3 attempts were used up and the record is still terminal.
C18_Witness ==
  /\ prop.pc = "done" /\ prop.result \in {"exhausted", "failed"}
  /\ Len(prop.gets) = 3
  /\ Terminal(store[prop.job])

\* C19: the propagator never throws past its own boundary: whatever the reads
\* and updates return or throw, the call ends by returning.
C19_PropagatorNeverThrows ==
  /\ prop.result # "threw"
  /\ prop.pc = "done" => prop.result \in {"updated", "absent", "failed", "exhausted"}

\* C19 witness: a read and an update threw and the call still returned.
C19_Witness ==
  /\ prop.pc = "done"
  /\ "threw" \in Range(prop.gets) /\ "threw" \in Range(prop.puts)

\* C12: the verifier accepts a request only if its timestamp t satisfies
\* now - t <= 5 minutes and t - now <= 1 minute; with a parsable header and
\* a cryptographically valid signature, a t more than 5 minutes old (6
\* minutes, say) is rejected with STALE and a t more than 1 minute ahead with
\* FUTURE_TIMESTAMP.
C12_FreshnessWindow ==
  verif.pc = "done" =>
    LET signed == verif.header /\ verif.key /\ verif.signature
    IN /\ verif.valid => (verif.now - verif.t <= 300 /\ verif.t - verif.now <= 60)
       /\ (signed /\ verif.now - verif.t > 300)
            => (~verif.valid /\ verif.error = "STALE")
       /\ (signed /\ verif.t - verif.now > 60)
            => (~verif.valid /\ verif.error = "FUTURE_TIMESTAMP")
       /\ (signed /\ verif.now - verif.t <= 300 /\ verif.t - verif.now <= 60)
            => verif.valid

\* C12 witness: a validly signed request stamped 6 minutes ago was rejected
\* as STALE.
C12_Witness ==
  /\ verif.pc = "done" /\ verif.signature /\ verif.key /\ verif.header
  /\ verif.now - verif.t = 360
  /\ ~verif.valid /\ verif.error = "STALE"

\* C20: in every stored record of the Durable Object, in every reachable
\* state, progress.pending + progress.dispatched + progress.done +
\* progress.error equals progress.total, which is 1.
C20_ProgressSums ==
  \A j \in Jobs :
    /\ (deployment = "durable_object" /\ Exists(store[j])) => store[j].progress # Absent
    /\ store[j].progress # Absent =>
         LET p == store[j].progress[1]
         IN /\ p.total = 1
            /\ p.pending + p.dispatched + p.done + p.error = p.total

\* C20 witness: a record stored as done, with its one unit of work counted done.
C20_Witness ==
  \E j \in Jobs :
    /\ store[j].status = "done" /\ store[j].progress # Absent
    /\ store[j].progress[1].done = 1

\* ------------------------------------------------------------------ C21, C22

\* C21: in every stored job record result and error are never both set,
\* result is set only when the status is done, and error is set only when the
\* status is error.
C21_ResultXorError ==
  \A j \in Jobs :
    /\ ~(store[j].result # Absent /\ store[j].error # Absent)
    /\ store[j].result # Absent => store[j].status = "done"
    /\ store[j].error # Absent => store[j].status = "error"

\* C21 witness: one job stored as done with its result and no error, the
\* other stored as error with its error and no result.
C21_Witness ==
  \E j, k \in Jobs :
    /\ store[j].status = "done" /\ store[j].result # Absent /\ store[j].error = Absent
    /\ store[k].status = "error" /\ store[k].error # Absent /\ store[k].result = Absent

\* C22: a status poll that returns done or error returns completed_at, and
\* where it returns progress, progress.done + progress.error = 1 (the Durable
\* Object always returns progress); and when an execution whose task succeeded
\* has returned, the poll of its job returns done.
C22_TerminalPoll ==
  \A j \in Jobs :
    LET r == StatusResponse(j)
    IN /\ (r.code = 200 /\ r.status \in {"done", "error"}) =>
            /\ r.completed_at
            /\ deployment = "durable_object" => r.progress # Absent
            /\ r.progress # Absent => r.progress[1].done + r.progress[1].error = 1
       /\ (event.kind \in {"alarm", "processJob"} /\ event.job = j
             /\ event.how = "returned" /\ event.task = "ok") =>
            r.status = "done"

\* C22 witness: an alarm whose task succeeded has returned and the poll shows
\* done, while the other job's poll shows the error of its expiry.
C22_Witness ==
  \E j, k \in Jobs :
    /\ AlarmReturned(event, j) /\ event.task = "ok"
    /\ StatusResponse(j).status = "done"
    /\ StatusResponse(k).status = "error"
    /\ StatusResponse(k).error # Absent
    /\ StatusResponse(k).error[1].code = "EXPIRED"

\* ------------------------------------------------------------------ C23, C24

\* C23: every value in the job store was written with a time-to-live of 24
\* hours, and expires 24 hours after the write that stored it.
C23_EveryWriteExpires ==
  \A k \in Keys :
    kv.data[k].present =>
      /\ kv.data[k].ttl = Some(24 * 60 * 60)
      /\ kv.data[k].expires = Some(kv.data[k].at + 24 * 60 * 60)

\* C23 witness: a terminal record saved over an earlier one at a later time,
\* next to a pending record of the other job.
C23_Witness ==
  \E j, k \in Jobs :
    /\ kv.last.op = "save" /\ kv.last.job = j
    /\ kv.data[Key(j)].saved.status = "done"
    /\ kv.data[Key(j)].at > 0
    /\ kv.data[Key(k)].present
    /\ kv.data[Key(k)].saved.status = "pending"
    /\ kv.data[Key(k)].at < kv.data[Key(j)].at

\* Two objects agree on every property read from them.
FieldsEqual(a, b) == \A f \in Range(Fields) : ReadField(a, f) = ReadField(b, f)

\* C24: getJobState for a job_id whose last saveJobState has not expired
\* returns an object equal, field for field, to the one saved.
C24_RoundTrip ==
  kv.last.op = "get" =>
    LET entry == kv.data[Key(kv.last.job)]
    IN (entry.present /\ kv.now < entry.at + KV_TTL) =>
         /\ kv.last.found
         /\ FieldsEqual(kv.last.state, entry.saved)

\* C24 witness: a done record saved with expires_at undefined is read back
\* some time after the write and before it expires.
C24_Witness ==
  /\ kv.last.op = "get" /\ kv.last.found
  /\ LET entry == kv.data[Key(kv.last.job)]
     IN /\ entry.saved.status = "done"
        /\ entry.saved.expires_at = "undefined"
        /\ entry.at < kv.now
        /\ kv.last.state.result = "task result"

\* ------------------------------------------------------------------ C25

\* C25: a key lookup that finds no cached key for its origin, or one fetched
\* more than 1 hour ago, fetches exactly once; a lookup less than 1 hour
\* after a successful fetch for the same origin does not fetch.
C25_KeyCachedOneHour ==
  LET l == keyCache.last
  IN l.op = "verify" =>
       /\ (~l.cached \/ keyCache.now - l.fetchedAt > 60 * 60) => l.fetches = 1
       /\ (l.cached /\ keyCache.now - l.fetchedAt < 60 * 60) =>
            (l.fetches = 0 /\ l.key)

\* C25 witness: a lookup half an hour after a successful fetch for its origin
\* is served from the cache, while the other origin has no key cached.
C25_Witness ==
  \E o, p \in Origins :
    /\ keyCache.last.op = "verify" /\ keyCache.last.origin = o
    /\ keyCache.last.cached
    /\ keyCache.last.fetchedAt < keyCache.now
    /\ keyCache.now - keyCache.last.fetchedAt < CACHE_TTL
    /\ keyCache.last.fetches = 0
    /\ ~keyCache.cache[p].present

\* ------------------------------------------------------------------ C26-C30

\* C26: whenever the task callback is invoked the stored record of its job
\* is running (in the Durable Object with progress pending 0, dispatched 1),
\* and a stored record in status pending means the task of that job was
\* never started.
C26_DurableBeforeExecution ==
  [][\A j \in Jobs :
       /\ taskRuns'[j] > taskRuns[j] =>
            /\ store'[j].status = "running"
            /\ deployment = "durable_object" =>
                 store'[j].progress = Some(Progress(0, 1, 0, 0))
       /\ store'[j].status = "pending" => taskRuns'[j] = 0]_vars

\* C27: when the log flush or the status propagation is about to begin or
\* has begun, the stored record of the job is terminal.
C27_TerminalBeforeFlush ==
  /\ \A j \in Jobs : apc[j] \in {"wl_log", "wl_prop"} => Terminal(store[j])
  /\ \A r \in Requests :
       procs[r].pc \in {"pj_log", "pj_final"} => Terminal(store[procs[r].job])

\* C28: an alarm execution that reached a terminal state and returned has
\* made one attempt to write the log and one attempt to propagate the status,
\* whether or not the log write failed.
C28_FlushAndPropagateIndependent ==
  \A j \in Jobs :
    AlarmReturned(event, j) => (event.nlog = 1 /\ event.nprop = 1)

\* How many processJob calls of job j have handed the log to the sink.
LogsHanded(j) == Cardinality({r \in Requests : procs[r].job = j /\ procs[r].nlog >= 1})

\* C29: the log of a job is handed to the sink at most once, by one execution
\* only, and an execution that has handed it over holds a terminal record
\* whose stored copy is terminal as well.
C29_LogOnceAfterTerminal ==
  \A j \in Jobs :
    /\ exLog[j] + LogsHanded(j) <= 1
    /\ exLog[j] >= 1 => (Terminal(mem[j]) /\ Terminal(store[j]))
    /\ \A r \in Requests :
         (procs[r].job = j /\ procs[r].nlog >= 1) =>
           (Terminal(procs[r].st) /\ Terminal(store[j]))

\* C30: an alarm execution that finds its record running does not write the
\* running transition (the store is left as it is and no write can fail),
\* goes on to the expiry check, calls the task again unless the job has
\* expired, and when it returns the stored record is terminal.
C30_RunningReentry ==
  [][\A j \in Jobs :
       /\ (apc[j] = "pa_start" /\ mem[j].status = "running" /\ apc'[j] # "pa_start") =>
            /\ store' = store
            /\ apc'[j] = "pa_expiry" \/ event'.how = "crashed"
       /\ (apc[j] = "pa_expiry" /\ mem[j].status = "running" /\ taskRuns[j] >= 1
             /\ ~IsExpired(j) /\ apc'[j] # "pa_expiry") =>
            \/ apc'[j] = "pa_await" /\ taskRuns'[j] = taskRuns[j] + 1
            \/ event'.how \in {"threw", "crashed"}
       /\ (AlarmReturned(event', j) /\ taskRuns[j] >= 2) => Terminal(store'[j])]_vars

\* C30 witness: the task of a job ran, the process died, the alarm fired
\* again and found the record running, the task ran a second time and the
\* execution returned with the record terminal.
C30_Witness ==
  \E j \in Jobs :
    /\ crashes >= 1
    /\ taskRuns[j] = 2
    /\ AlarmReturned(event, j)
    /\ Terminal(store[j])

\* ------------------------------------------------------------------ C31

\* C31: the deadline is not looked at once the task has been called: while
\* the task runs and until its outcome is saved the stored record stays
\* running, and an execution whose task succeeded and which returned leaves
\* the record done, without an error, also when expires_at has passed by then.
C31_ExpiryNeverInterrupts ==
  \A j \in Jobs :
    /\ apc[j] \in {"pa_await", "pa_save"} => store[j].status = "running"
    /\ (event.kind \in {"alarm", "processJob"} /\ event.job = j
          /\ event.how = "returned" /\ event.task = "ok" /\ expired[j]) =>
         (store[j].status = "done" /\ store[j].error = Absent)

\* C31 witness: the first firing of a job saw its deadline ahead, nothing
\* crashed, the task succeeded, the deadline has passed, and the alarm
\* returned with the record done.
C31_Witness ==
  \E j \in Jobs :
    /\ AlarmReturned(event, j) /\ event.task = "ok"
    /\ firstFire[j] = "live" /\ crashes = 0
    /\ expired[j]
    /\ store[j].status = "done"

\* ------------------------------------------------------------------ C32

\* C32: every conditional update the propagator sends carries the version
\* read in the same attempt; an update whose version is no longer the
\* collection's current one is not applied; and after a conflict the next
\* update, if there is one, carries a version read afresh in a later attempt,
\* no older than the one that caused the conflict.
C32_TaggedWithVersionJustRead ==
  \A i \in 1..Len(prop.tags) :
    LET t == prop.tags[i]
    IN /\ t.readIn = t.attempt
       /\ t.expect # 0
       /\ t.expect # t.tip => prop.puts[i] # "ok"
       /\ (prop.puts[i] = "conflict" /\ i < Len(prop.tags)) =>
            /\ prop.tags[i + 1].attempt > t.attempt
            /\ prop.tags[i + 1].readIn > t.attempt
            /\ prop.tags[i + 1].expect >= t.tip

\* C32 witness: a sibling wrote between the read and the update of the first
\* attempt, the update met a conflict, and the second attempt read the new
\* version and went through.
C32_Witness ==
  /\ prop.puts = <<"conflict", "ok">>
  /\ prop.tags[1].expect < prop.tags[1].tip
  /\ prop.tags[2].expect = prop.tags[1].tip
  /\ prop.tags[2].expect = prop.tags[2].tip
  /\ prop.result = "updated"

\* ------------------------------------------------------------------ C33

\* C33: the wait after failed attempt i (counted from 0) is at least
\* 100 * 2^i and at most 100 * 2^i + 100 milliseconds, 100 to 200 after
\* attempt 0 and 200 to 300 after attempt 1, whether the attempt failed with
\* a version conflict or with a thrown error.
C33_BackoffSchedule ==
  /\ \A i \in 1..Len(prop.waits) :
       /\ 100 * 2 ^ (i - 1) <= prop.waits[i]
       /\ prop.waits[i] <= 100 * 2 ^ (i - 1) + 100
  /\ Len(prop.waits) >= 1 => (100 <= prop.waits[1] /\ prop.waits[1] <= 200)
  /\ Len(prop.waits) >= 2 => (200 <= prop.waits[2] /\ prop.waits[2] <= 300)

\* C33 witness: the first attempt met a conflict and waited 199 ms, the
\* second threw in its read and waited 200 ms.
C33_Witness ==
  /\ prop.puts = <<"conflict">>
  /\ prop.gets = <<"found", "threw">>
  /\ prop.waits = <<199, 200>>

\* ------------------------------------------------------------------ C34

\* A request, handler, alarm execution or processJob call of job j is at work
\* in this step.
ActsOn(j) ==
  \/ hpc[j] # "idle"
  \/ apc[j] # "idle"
  \/ \E r \in Requests : IsLive(procs[r]) /\ procs[r].job = j
  \/ event'.kind = "response" /\ event'.job = j

\* C34: a step changes the stored record of a job only when it is a step of
\* that job, and then it leaves the record of every other job as it is; an
\* alarm execution loads the record of its own job; every stored or loaded
\* record carries the job_id it is kept under.
C34_JobsIndependent ==
  [][\A j \in Jobs :
       /\ store'[j] # store[j] =>
            /\ ActsOn(j)
            /\ \A k \in Jobs \ {j} : store'[k] = store[k]
       /\ Exists(store'[j]) => store'[j].job_id = j
       /\ (apc[j] = "idle" /\ apc'[j] = "pa_start") => mem'[j] = store[j]]_vars

\* C34 witness: the executions of two jobs interleave: one has just returned
\* with its record terminal while the task of the other is still running.
C34_Witness ==
  \E j, k \in Jobs :
    /\ j # k
    /\ event.kind \in {"alarm", "processJob"} /\ event.job = j
    /\ event.how = "returned"
    /\ Terminal(store[j])
    /\ store[k].status = "running"
    /\ taskRuns[k] = 1

\* ------------------------------------------------------------------ C35

\* C35: a stored record in status pending has an alarm armed, an alarm
\* execution or a handleStart that has yet to arm it under way, or (in the
\* Worker) a processJob call of its job alive.
C35_NoStrandedPending ==
  \A j \in Jobs :
    store[j].status = "pending" =>
      \/ alarmArmed[j]
      \/ apc[j] # "idle"
      \/ hpc[j] # "idle"
      \/ \E r \in Requests : IsLive(procs[r]) /\ procs[r].job = j

\* ------------------------------------------------------------------ C36

\* C36: updateJobCollectionStatus is called only with a record in done or
\* error that is stored as such, and the status it is to write to the job
\* collection is done exactly when the record is done and error exactly when
\* it is error.
C36_PropagatedStatusAgrees ==
  \A j \in Jobs :
    /\ apc[j] = "wl_prop" =>
         (Terminal(mem[j]) /\ store[j].status = mem[j].status)
    /\ (AlarmReturned(event, j) /\ event.nprop >= 1) =>
         /\ Terminal(store[j])
         /\ event.propagated = store[j].status

\* C36 witness: a job whose task failed was propagated as error, while the
\* other job is stored as done.
C36_Witness ==
  \E j, k \in Jobs :
    /\ AlarmReturned(event, j) /\ event.nprop = 1
    /\ event.propagated = "error"
    /\ store[j].status = "error" /\ store[j].error[1].code = "TASK_FAILED"
    /\ store[k].status = "done"

\* ------------------------------------------------------------------ C37

\* C37: a step that answers a request with accepted: false and status 400
\* (a required field or input.entity_id is missing) or 503 (ARKE_API_KEY is
\* not set) leaves the job store, the alarm state and the armed alarms as
\* they were and starts no alarm execution, no processJob call and no task.
C37_RejectionLeavesNoTrace ==
  [][(event'.kind = "response" /\ ~event'.accepted /\ event'.code \in {400, 503}) =>
       /\ store' = store
       /\ alarmState' = alarmState
       /\ alarmArmed' = alarmArmed
       /\ apc' = apc /\ hpc' = hpc
       /\ procs' = procs
       /\ taskRuns' = taskRuns]_vars

\* C37 witness: a request without input.entity_id was rejected with 400 and
\* its job has no record, no alarm state and no alarm, while the other job
\* was accepted and is stored.
C37_Witness ==
  \E j, k \in Jobs :
    /\ event.kind = "response" /\ event.job = j
    /\ ~event.accepted /\ event.code = 400
    /\ ~Exists(store[j]) /\ alarmState[j] = "none" /\ ~alarmArmed[j]
    /\ taskRuns[j] = 0
    /\ Exists(store[k])

\* ------------------------------------------------------------------ C38

\* C38: a request is accepted only when the origin its body names as
\* api_base, whose key its signature was verified under, is the agent's
\* configured authority ARKE_API_BASE.
C38_TrustedAuthorityOnly ==
  (event.kind = "response" /\ event.accepted /\ event.req # Absent) =>
    event.req[1].api_base = ARKE_API_BASE

\* ------------------------------------------------------------------ C39

\* C39: a stored record carries the error code TASK_FAILED only if the task
\* callback was invoked for its job, and an execution that ends with the
\* record so marked is one whose task threw.
C39_TaskFailedMeansTaskRan ==
  \A j \in Jobs :
    (store[j].error # Absent /\ store[j].error[1].code = "TASK_FAILED") =>
      /\ taskRuns[j] >= 1
      /\ (event.kind \in {"alarm", "processJob"} /\ event.job = j
            /\ event.how = "returned") => event.task = "threw"

====
